---- MODULE Spec2Model ----
(***************************************************************************)
(* Model of sdk/python/foundation-models/nixtla/05_demand_forecasting.ipynb *)
(*                                                                         *)
(* The notebook is a linear sequence of cells.  Every code cell that       *)
(* changes a data frame is one action; pc is the next cell to run.  Data   *)
(* frames are sequences of rows, a row is a function from column names to  *)
(* numbers.  Real numbers are fixed-point integers: the real x is the      *)
(* integer x * Scale.  A missing value (pandas NaN) is the marker NaN.     *)
(* An uncaught exception ends the run (pc = "aborted").                    *)
(***************************************************************************)
EXTENDS Integers, Sequences, FiniteSets, TLC

(***************************************************************************)
(* Bounds of the model.                                                    *)
(***************************************************************************)
\* the horizon: tail(28) and h=28 in the notebook, scaled down
H == 2
\* number of series (unique_id values) of the panel
NumSeries == 2
\* largest demand value of a record
MaxY == 2
\* resolution of the fixed-point numbers: 1.0 is Scale
Scale == 10000

\* longest series of a panel: one record more than the horizon
MaxLen == H + 1
\* tolerance of the numeric round trip, 0.001
Tol == Scale \div 1000

Ids == 1..NumSeries

VARIABLES pc, df, df_transformed, test_df, input_df, fcst_df, sf_preds,
          futr_exog_df, evaluation, average_metrics, request, response,
          stdout, error

vars == <<pc, df, df_transformed, test_df, input_df, fcst_df, sf_preds,
          futr_exog_df, evaluation, average_metrics, request, response,
          stdout, error>>

(***************************************************************************)
(* Numbers.                                                                *)
(***************************************************************************)
\* pandas' missing value, outside the range of every number of the model
NaN == -1000000000

Abs(x) == IF x < 0 THEN -x ELSE x

\* quotient a / b for b > 0, rounded to the nearest number
Quot(a, b) ==
    IF a >= 0 THEN (2 * a + b) \div (2 * b) ELSE -((2 * (-a) + b) \div (2 * b))

\* sum of the series z + z^3/3 + z^5/5 + ... from the term z^k on
RECURSIVE AtanhSeries(_, _, _)
AtanhSeries(z, zpow, k) ==
    IF Quot(zpow, k) = 0 THEN 0
    ELSE Quot(zpow, k)
         + AtanhSeries(z, Quot(Quot(zpow * z, Scale) * z, Scale), k + 2)

\* np.log(x) for x > 0: 2 * atanh((x - 1) / (x + 1))
Log(x) ==
    LET z == Quot((x - Scale) * Scale, x + Scale)
    IN  2 * AtanhSeries(z, z, 1)

\* sum of the series 1 + t + t^2/2! + ... from the k-th term on
RECURSIVE ExpSeries(_, _, _)
ExpSeries(t, term, k) ==
    IF term = 0 THEN 0
    ELSE term + ExpSeries(t, Quot(term * t, k * Scale), k + 1)

\* np.exp(t)
Exp(t) == ExpSeries(t, Scale, 1)

\* the forward transform of the target: np.log(y + 1)
forward(v) == Log(v + Scale)

\* the inverse without the subtraction of one
inverse_noshift(t) == Exp(t)

\* the inverse transform of a prediction: np.exp(col) - 1
inverse(t) == Exp(t) - Scale

(***************************************************************************)
(* Data frames.                                                            *)
(***************************************************************************)
KeyCols == {"unique_id", "ds"}

\* the rows of tbl at the positions idx, in their order
Take(tbl, idx) ==
    LET F[i \in 0..Len(tbl)] ==
            IF i = 0 THEN <<>>
            ELSE IF i \in idx THEN Append(F[i - 1], tbl[i]) ELSE F[i - 1]
    IN  F[Len(tbl)]

Reverse(tbl) == [i \in 1..Len(tbl) |-> tbl[Len(tbl) + 1 - i]]

\* the rows of one series
SeriesRows(tbl, s) == Take(tbl, {i \in 1..Len(tbl) : tbl[i].unique_id = s})

IdsOf(tbl) == {tbl[i].unique_id : i \in 1..Len(tbl)}

KeysOf(tbl) == {<<tbl[i].unique_id, tbl[i].ds>> : i \in 1..Len(tbl)}

\* the values of column c
Column(tbl, c) == [i \in 1..Len(tbl) |-> tbl[i][c]]

\* the sum of a sequence of numbers
SumSeq(xs) ==
    LET F[i \in 0..Len(xs)] == IF i = 0 THEN 0 ELSE F[i - 1] + xs[i]
    IN  F[Len(xs)]

\* Series.mean(): the mean of the values that are not missing
MeanSkipNa(xs) ==
    LET present == SelectSeq(xs, LAMBDA x : x # NaN)
    IN  IF Len(present) = 0 THEN NaN
        ELSE Quot(SumSeq(present), Len(present))

(***************************************************************************)
(* The panel read by pd.read_csv: per series, records with increasing ds.  *)
(***************************************************************************)
\* the demand of a series: of every length up to MaxLen, starting at any
\* value and going round the values 0..MaxY, so that zeros recur
SeriesValues ==
    {[t \in 1..n |-> (v + t) % (MaxY + 1)] : n \in 1..MaxLen, v \in 0..MaxY}

\* the record of series s at time t
Record(s, t, v, hasY) ==
    LET exog == [unique_id |-> s, ds |-> t,
                 event_type_1 |-> t % 2, sell_price |-> s * Scale]
    IN  IF hasY THEN exog @@ [y |-> v * Scale] ELSE exog

RECURSIVE PanelFrom(_, _, _)
PanelFrom(ys, s, hasY) ==
    IF s > NumSeries THEN <<>>
    ELSE [t \in 1..Len(ys[s]) |-> Record(s, t, ys[s][t], hasY)]
         \o PanelFrom(ys, s + 1, hasY)

Panels ==
    {PanelFrom(ys, 1, TRUE) : ys \in [Ids -> SeriesValues]}
    \cup {PanelFrom([s \in Ids |-> [t \in 1..MaxLen |-> 0]], 1, FALSE)}

Init ==
    /\ pc = "transform"
    /\ df \in Panels
    /\ df_transformed = <<>>
    /\ test_df = <<>>
    /\ input_df = <<>>
    /\ fcst_df = <<>>
    /\ sf_preds = <<>>
    /\ futr_exog_df = <<>>
    /\ evaluation = <<>>
    /\ average_metrics = <<>>
    /\ request = <<>>
    /\ response = <<>>
    /\ stdout = <<>>
    /\ error = "none"

\* an uncaught exception: the run stops
Raise(kind) ==
    /\ pc' = "aborted"
    /\ error' = kind

(***************************************************************************)
(* df_transformed["y"] = np.log(df_transformed["y"] + 1)                   *)
(***************************************************************************)
LogTransform(tbl) ==
    [i \in 1..Len(tbl) |-> [tbl[i] EXCEPT !["y"] = forward(@)]]

Transform ==
    /\ pc = "transform"
    /\ IF \A i \in 1..Len(df) : "y" \in DOMAIN df[i]
       THEN /\ df_transformed' = LogTransform(df)
            /\ pc' = "split"
            /\ UNCHANGED error
       ELSE /\ Raise("KeyError")
            /\ UNCHANGED df_transformed
    /\ UNCHANGED <<df, test_df, input_df, fcst_df, sf_preds, futr_exog_df,
                   evaluation, average_metrics, request, response, stdout>>

(***************************************************************************)
(* test_df = df_transformed.groupby("unique_id").tail(28)                  *)
(* input_df = df_transformed.drop(test_df.index).reset_index(drop=True)    *)
(***************************************************************************)
\* the positions of the last n rows of every group
TailIndex(tbl, n) ==
    {i \in 1..Len(tbl) :
        Cardinality({j \in (i + 1)..Len(tbl) :
                        tbl[j].unique_id = tbl[i].unique_id}) < n}

GroupTail(tbl, n) == Take(tbl, TailIndex(tbl, n))

DropIndex(tbl, idx) == Take(tbl, (1..Len(tbl)) \ idx)

Split ==
    /\ pc = "split"
    /\ test_df' = GroupTail(df_transformed, H)
    /\ input_df' = DropIndex(df_transformed, TailIndex(df_transformed, H))
    /\ pc' = "forecast"
    /\ UNCHANGED <<df, df_transformed, fcst_df, sf_preds, futr_exog_df,
                   evaluation, average_metrics, request, response, stdout,
                   error>>

(***************************************************************************)
(* The providers.  Both are outside the repository: the remote service is  *)
(* opaque and the statistical models are a library, so a forecast is a     *)
(* choice among a few shapes of answer a provider can give.  Every answer  *)
(* is on the scale of the y it was given and is flat over the horizon.     *)
(***************************************************************************)
LastRow(tbl, s) == LET rows == SeriesRows(tbl, s) IN rows[Len(rows)]

\* the mean of the target of series s
Level(tbl, s) == MeanSkipNa(Column(SeriesRows(tbl, s), "y"))

\* the shapes of a remote answer: rows in the order of the input, rows in
\* the opposite order, timestamps one step late, the last series left out
RemoteShapes == {"aligned", "reversed", "shifted", "partial"}

TimeGPTCols ==
    {"unique_id", "ds", "TimeGPT", "TimeGPT-lo-80", "TimeGPT-hi-80"}

\* the forecast of series s at step k: the last value, with an interval
TimeGPTRow(tbl, s, k, shift) ==
    LET last == LastRow(tbl, s)
    IN  [unique_id |-> s, ds |-> last.ds + k + shift, TimeGPT |-> last.y]
        @@ ("TimeGPT-lo-80" :> last.y - Scale \div 2)
        @@ ("TimeGPT-hi-80" :> last.y + Scale \div 2)

RECURSIVE TimeGPTRows(_, _, _, _, _)
TimeGPTRows(tbl, h, ids, s, shift) ==
    IF s > NumSeries THEN <<>>
    ELSE (IF s \in ids
          THEN [k \in 1..h |-> TimeGPTRow(tbl, s, k, shift)] ELSE <<>>)
         \o TimeGPTRows(tbl, h, ids, s + 1, shift)

\* nixtla_client.forecast(df=tbl, h=h, level=[80], ...)
RemoteForecast(tbl, h, shape) ==
    LET ids  == IdsOf(tbl)
        kept == IF shape = "partial" /\ ids # {}
                THEN ids \ {CHOOSE s \in ids : \A u \in ids : u <= s}
                ELSE ids
        rows == TimeGPTRows(tbl, h, kept, 1,
                            IF shape = "shifted" THEN 1 ELSE 0)
    IN  IF shape = "reversed" THEN Reverse(rows) ELSE rows

SfCols ==
    {"unique_id", "ds", "CrostonClassic", "CrostonOptimized", "IMAPA", "TSB"}

RECURSIVE SfRows(_, _, _)
SfRows(tbl, h, s) ==
    IF s > NumSeries THEN <<>>
    ELSE (IF s \in IdsOf(tbl)
          THEN [k \in 1..h |->
                  [unique_id |-> s, ds |-> LastRow(tbl, s).ds + k,
                   CrostonClassic |-> Level(tbl, s),
                   CrostonOptimized |-> LastRow(tbl, s).y,
                   IMAPA |-> Level(tbl, s),
                   TSB |-> LastRow(tbl, s).y]]
          ELSE <<>>)
         \o SfRows(tbl, h, s + 1)

\* sf.fit(df=tbl); sf.predict(h=h)
SfPredict(tbl, h) == SfRows(tbl, h, 1)

(***************************************************************************)
(* fcst_df = nixtla_client.forecast(df=input_df, h=28, level=[80], ...)    *)
(***************************************************************************)
Forecast ==
    /\ pc = "forecast"
    /\ \E shape \in RemoteShapes :
          response' = RemoteForecast(input_df, H, shape)
    /\ request' = [provider |-> "TimeGPT", df |-> input_df, X_df |-> <<>>]
    /\ fcst_df' = response'
    /\ stdout' = Append(stdout, "Time (TimeGEN)")
    /\ pc' = "inverse"
    /\ UNCHANGED <<df, df_transformed, test_df, input_df, sf_preds,
                   futr_exog_df, evaluation, average_metrics, error>>

\* the remote call raises (network, authentication, remote side)
ForecastFails ==
    /\ pc = "forecast"
    /\ request' = [provider |-> "TimeGPT", df |-> input_df, X_df |-> <<>>]
    /\ Raise("RemoteError")
    /\ UNCHANGED <<df, df_transformed, test_df, input_df, fcst_df, sf_preds,
                   futr_exog_df, evaluation, average_metrics, response,
                   stdout>>

(***************************************************************************)
(* for col in cols: fcst_df[col] = np.exp(fcst_df[col]) - 1                *)
(***************************************************************************)
InverseTransform(tbl) ==
    [i \in 1..Len(tbl) |->
        [c \in DOMAIN tbl[i] |->
            IF c \in KeyCols THEN tbl[i][c] ELSE inverse(tbl[i][c])]]

InverseFcst ==
    /\ pc = "inverse"
    /\ fcst_df' = InverseTransform(fcst_df)
    /\ pc' = "merge"
    /\ UNCHANGED <<df, df_transformed, test_df, input_df, sf_preds,
                   futr_exog_df, evaluation, average_metrics, request,
                   response, stdout, error>>

(***************************************************************************)
(* test_df = pd.merge(test_df, fcst_df, "left", ["unique_id", "ds"])       *)
(***************************************************************************)
Matches(r, right) ==
    {j \in 1..Len(right) :
        right[j].unique_id = r.unique_id /\ right[j].ds = r.ds}

\* the rows a left row becomes: one per match, or one of missing values
MergeRow(r, right, cols) ==
    LET found == Take(right, Matches(r, right))
    IN  IF Len(found) = 0
        THEN <<r @@ [c \in cols \ KeyCols |-> NaN]>>
        ELSE [k \in 1..Len(found) |->
                 r @@ [c \in cols \ KeyCols |-> found[k][c]]]

\* pd.merge(left, right, "left", ["unique_id", "ds"]); cols: right's columns
LeftMerge(left, right, cols) ==
    LET F[i \in 0..Len(left)] ==
            IF i = 0 THEN <<>>
            ELSE F[i - 1] \o MergeRow(left[i], right, cols)
    IN  F[Len(left)]

MergeFcst ==
    /\ pc = "merge"
    /\ test_df' = LeftMerge(test_df, fcst_df, TimeGPTCols)
    /\ pc' = "evaluate"
    /\ UNCHANGED <<df, df_transformed, input_df, fcst_df, sf_preds,
                   futr_exog_df, evaluation, average_metrics, request,
                   response, stdout, error>>

(***************************************************************************)
(* evaluation = evaluate(test_df, metrics=[mae], models=[...])             *)
(* average_metrics = evaluation.groupby("metric")[[...]].mean()            *)
(***************************************************************************)
\* |y - prediction| of one row; missing when either is missing
AbsError(r, m) ==
    IF r[m] = NaN \/ r.y = NaN THEN NaN ELSE Abs(r[m] - r.y)

\* utilsforecast.losses.mae of one series: the mean over the rows
Mae(tbl, s, m) ==
    LET rows == SeriesRows(tbl, s)
    IN  MeanSkipNa([i \in 1..Len(rows) |-> AbsError(rows[i], m)])

RECURSIVE EvaluateFrom(_, _, _)
EvaluateFrom(tbl, models, s) ==
    IF s > NumSeries THEN <<>>
    ELSE (IF s \in IdsOf(tbl)
          THEN <<[unique_id |-> s] @@ [m \in models |-> Mae(tbl, s, m)]>>
          ELSE <<>>)
         \o EvaluateFrom(tbl, models, s + 1)

\* utilsforecast.evaluation.evaluate: one row per series, metric "mae"
Evaluate(tbl, models) == EvaluateFrom(tbl, models, 1)

\* the mean with a missing value counted as zero
MeanZeroNa(xs) ==
    Quot(SumSeq([i \in 1..Len(xs) |-> IF xs[i] = NaN THEN 0 ELSE xs[i]]),
         Len(xs))

AverageMetrics_fillna(ev, models) ==
    [m \in models |-> MeanZeroNa(Column(ev, m))]

\* evaluation.groupby("metric")[models].mean()
AverageMetrics(ev, models) == [m \in models |-> MeanSkipNa(Column(ev, m))]

EvaluateTimeGPT ==
    /\ pc = "evaluate"
    /\ evaluation' = Evaluate(test_df, {"TimeGPT"})
    /\ average_metrics' = AverageMetrics(evaluation', {"TimeGPT"})
    /\ pc' = "sf_fit"
    /\ UNCHANGED <<df, df_transformed, test_df, input_df, fcst_df, sf_preds,
                   futr_exog_df, request, response, stdout, error>>

(***************************************************************************)
(* sf.fit(df=input_df); sf_preds = sf.predict(h=28)                        *)
(***************************************************************************)
SfFitPredict ==
    /\ pc = "sf_fit"
    /\ response' = SfPredict(input_df, H)
    /\ request' = [provider |-> "StatsForecast", df |-> input_df,
                   X_df |-> <<>>]
    /\ sf_preds' = response'
    /\ stdout' = Append(stdout, "Statistical models took")
    /\ pc' = "sf_inverse"
    /\ UNCHANGED <<df, df_transformed, test_df, input_df, fcst_df,
                   futr_exog_df, evaluation, average_metrics, error>>

\* fitting or predicting raises
SfFitPredictFails ==
    /\ pc = "sf_fit"
    /\ request' = [provider |-> "StatsForecast", df |-> input_df,
                   X_df |-> <<>>]
    /\ Raise("FitError")
    /\ UNCHANGED <<df, df_transformed, test_df, input_df, fcst_df, sf_preds,
                   futr_exog_df, evaluation, average_metrics, response,
                   stdout>>

\* for col in cols: sf_preds[col] = np.exp(sf_preds[col]) - 1
InverseSf ==
    /\ pc = "sf_inverse"
    /\ sf_preds' = InverseTransform(sf_preds)
    /\ pc' = "sf_merge"
    /\ UNCHANGED <<df, df_transformed, test_df, input_df, fcst_df,
                   futr_exog_df, evaluation, average_metrics, request,
                   response, stdout, error>>

\* test_df = pd.merge(test_df, sf_preds, "left", ["unique_id", "ds"])
MergeSf ==
    /\ pc = "sf_merge"
    /\ test_df' = LeftMerge(test_df, sf_preds, SfCols)
    /\ pc' = "sf_evaluate"
    /\ UNCHANGED <<df, df_transformed, input_df, fcst_df, sf_preds,
                   futr_exog_df, evaluation, average_metrics, request,
                   response, stdout, error>>

BaseModels == {"TimeGPT", "CrostonClassic", "CrostonOptimized", "IMAPA", "TSB"}

EvaluateBase ==
    /\ pc = "sf_evaluate"
    /\ evaluation' = Evaluate(test_df, BaseModels)
    /\ average_metrics' = AverageMetrics(evaluation', BaseModels)
    /\ pc' = "futr_exog"
    /\ UNCHANGED <<df, df_transformed, test_df, input_df, fcst_df, sf_preds,
                   futr_exog_df, request, response, stdout, error>>

(***************************************************************************)
(* futr_exog_df = test_df.drop([...], axis=1)                              *)
(***************************************************************************)
\* the drop list without the target
DroppedCols_noY ==
    {"TimeGPT", "CrostonClassic", "CrostonOptimized", "IMAPA", "TSB",
     "TimeGPT-lo-80", "TimeGPT-hi-80", "sell_price"}

\* the columns the cell drops
DroppedCols ==
    {"TimeGPT", "CrostonClassic", "CrostonOptimized", "IMAPA", "TSB", "y",
     "TimeGPT-lo-80", "TimeGPT-hi-80", "sell_price"}

DropColumns(tbl, cols) ==
    [i \in 1..Len(tbl) |-> [c \in DOMAIN tbl[i] \ cols |-> tbl[i][c]]]

FutrExog ==
    /\ pc = "futr_exog"
    /\ futr_exog_df' = DropColumns(test_df, DroppedCols)
    /\ pc' = "forecast_ex"
    /\ UNCHANGED <<df, df_transformed, test_df, input_df, fcst_df, sf_preds,
                   evaluation, average_metrics, request, response, stdout,
                   error>>

(***************************************************************************)
(* fcst_df = nixtla_client.forecast(df=input_df, X_df=futr_exog_df, ...)   *)
(***************************************************************************)
ForecastEx ==
    /\ pc = "forecast_ex"
    /\ \E shape \in RemoteShapes :
          response' = RemoteForecast(input_df, H, shape)
    /\ request' = [provider |-> "TimeGPT", df |-> input_df,
                   X_df |-> futr_exog_df]
    /\ fcst_df' = response'
    /\ stdout' = Append(stdout, "Time (TimeGEN)")
    /\ pc' = "ex_inverse"
    /\ UNCHANGED <<df, df_transformed, test_df, input_df, sf_preds,
                   futr_exog_df, evaluation, average_metrics, error>>

ForecastExFails ==
    /\ pc = "forecast_ex"
    /\ request' = [provider |-> "TimeGPT", df |-> input_df,
                   X_df |-> futr_exog_df]
    /\ Raise("RemoteError")
    /\ UNCHANGED <<df, df_transformed, test_df, input_df, fcst_df, sf_preds,
                   futr_exog_df, evaluation, average_metrics, response,
                   stdout>>

(***************************************************************************)
(* fcst_df.rename(columns={"TimeGPT": "TimeGPT_ex"}, inplace=True)         *)
(* for col in cols: fcst_df[col] = np.exp(fcst_df[col]) - 1                *)
(***************************************************************************)
Rename(tbl, from, to) ==
    [i \in 1..Len(tbl) |->
        [c \in (DOMAIN tbl[i] \ {from}) \cup {to} |->
            IF c = to THEN tbl[i][from] ELSE tbl[i][c]]]

InverseEx ==
    /\ pc = "ex_inverse"
    /\ fcst_df' = InverseTransform(Rename(fcst_df, "TimeGPT", "TimeGPT_ex"))
    /\ pc' = "ex_assign"
    /\ UNCHANGED <<df, df_transformed, test_df, input_df, sf_preds,
                   futr_exog_df, evaluation, average_metrics, request,
                   response, stdout, error>>

(***************************************************************************)
(* test_df["TimeGPT_ex"] = fcst_df["TimeGPT_ex"].values                    *)
(***************************************************************************)
\* the i-th value goes to the i-th row
AssignValues(tbl, c, values) ==
    [i \in 1..Len(tbl) |-> (c :> values[i]) @@ tbl[i]]

AssignEx ==
    /\ pc = "ex_assign"
    /\ Len(fcst_df) = Len(test_df)
    /\ test_df' = AssignValues(test_df, "TimeGPT_ex",
                               Column(fcst_df, "TimeGPT_ex"))
    /\ pc' = "ex_evaluate"
    /\ UNCHANGED <<df, df_transformed, input_df, fcst_df, sf_preds,
                   futr_exog_df, evaluation, average_metrics, request,
                   response, stdout, error>>

\* pandas: Length of values does not match length of index
AssignExFails ==
    /\ pc = "ex_assign"
    /\ Len(fcst_df) # Len(test_df)
    /\ Raise("ValueError")
    /\ UNCHANGED <<df, df_transformed, test_df, input_df, fcst_df, sf_preds,
                   futr_exog_df, evaluation, average_metrics, request,
                   response, stdout>>

AllModels == BaseModels \cup {"TimeGPT_ex"}

EvaluateAll ==
    /\ pc = "ex_evaluate"
    /\ evaluation' = Evaluate(test_df, AllModels)
    /\ average_metrics' = AverageMetrics(evaluation', AllModels)
    /\ pc' = "done"
    /\ UNCHANGED <<df, df_transformed, test_df, input_df, fcst_df, sf_preds,
                   futr_exog_df, request, response, stdout, error>>

Next ==
    \/ Transform
    \/ Split
    \/ Forecast
    \/ ForecastFails
    \/ InverseFcst
    \/ MergeFcst
    \/ EvaluateTimeGPT
    \/ SfFitPredict
    \/ SfFitPredictFails
    \/ InverseSf
    \/ MergeSf
    \/ EvaluateBase
    \/ FutrExog
    \/ ForecastEx
    \/ ForecastExFails
    \/ InverseEx
    \/ AssignEx
    \/ AssignExFails
    \/ EvaluateAll

Spec == Init /\ [][Next]_vars

(***************************************************************************)
(* Properties.                                                             *)
(***************************************************************************)
\* the value columns a provider returns
PredictionCols == ((TimeGPTCols \cup SfCols) \ KeyCols) \cup {"TimeGPT_ex"}

\* the split has run
SplitDone == pc \notin {"transform", "split"} /\ error # "KeyError"

\* the rows of the panel df for series s
Original(s) == SeriesRows(df, s)

\* the timestamps of the chronologically last H records of series s
HoldoutWindow(s) ==
    {Original(s)[i].ds : i \in
        {i \in 1..Len(Original(s)) :
            Cardinality({j \in 1..Len(Original(s)) :
                            Original(s)[j].ds > Original(s)[i].ds}) < H}}

\* the untransformed target of the record (s, t) of the panel
RawY(s, t) ==
    LET i == CHOOSE i \in 1..Len(df) : df[i].unique_id = s /\ df[i].ds = t
    IN  df[i].y

\* the sum of f over a finite set
RECURSIVE SetSum(_, _)
SetSum(f, S) ==
    IF S = {} THEN 0
    ELSE LET x == CHOOSE x \in S : TRUE IN f[x] + SetSum(f, S \ {x})

\* test_df is about to be evaluated
AtEvaluation == pc \in {"evaluate", "sf_evaluate", "ex_evaluate"}

\* the columns that the last provider call added to test_df
LastCols ==
    IF pc = "evaluate" THEN TimeGPTCols \ KeyCols
    ELSE IF pc = "sf_evaluate" THEN SfCols \ KeyCols
    ELSE {"TimeGPT_ex"}

\* the column of the provider's answer that column c was made from
AnswerCol(c) == IF c = "TimeGPT_ex" THEN "TimeGPT" ELSE c

\* C1: at every evaluation the y of every holdout row is the untransformed
\* target of that record, and every prediction of the row is the provider's
\* value inverse-transformed exactly once.
C1_SameScale ==
    AtEvaluation =>
        \A i \in 1..Len(test_df) :
            /\ test_df[i].y = RawY(test_df[i].unique_id, test_df[i].ds)
            /\ \A c \in LastCols :
                  test_df[i][c] # NaN =>
                      \E j \in 1..Len(response) :
                          test_df[i][c] = inverse(response[j][AnswerCol(c)])

\* C2: after the split every series has a holdout of exactly H records, the
\* chronologically last ones, the input is the remainder, the two parts are
\* disjoint and every input timestamp precedes every holdout timestamp.
C2_SplitPartition ==
    SplitDone =>
        \A s \in IdsOf(df) :
            LET hold == SeriesRows(test_df, s)
                inp  == SeriesRows(input_df, s)
            IN  /\ Len(hold) = H
                /\ Len(inp) + Len(hold) = Len(Original(s))
                /\ KeysOf(inp) \cap KeysOf(hold) = {}
                /\ {hold[i].ds : i \in 1..Len(hold)} = HoldoutWindow(s)
                /\ \A i \in 1..Len(inp) : \A j \in 1..Len(hold) :
                      inp[i].ds < hold[j].ds

\* C3: with a series of fewer than H+1 records the split stops with an
\* insufficient-history error; a series of exactly H+1 records gets an
\* input of length 1.
C3_InsufficientHistory ==
    pc \notin {"transform", "split"} =>
        /\ (\E s \in IdsOf(df) : Len(Original(s)) < H + 1)
              => (pc = "aborted" /\ error = "InsufficientHistory")
        /\ SplitDone =>
              \A s \in IdsOf(df) :
                  Len(Original(s)) = H + 1 => Len(SeriesRows(input_df, s)) = 1

\* the forecast table that column c of test_df was taken from
ForecastTable(c) == IF c \in SfCols THEN sf_preds ELSE fcst_df

\* C4: at every evaluation each prediction just attached to a holdout row is
\* the provider's forecast for the (unique_id, ds) of that row.
C4_JoinedByKey ==
    AtEvaluation =>
        \A i \in 1..Len(test_df) : \A c \in LastCols :
            test_df[i][c] # NaN =>
                \E j \in 1..Len(ForecastTable(c)) :
                    /\ ForecastTable(c)[j].unique_id = test_df[i].unique_id
                    /\ ForecastTable(c)[j].ds = test_df[i].ds
                    /\ ForecastTable(c)[j][c] = test_df[i][c]

\* the forecast rows whose key is the key of no holdout row
Unmatched(fcst) ==
    {j \in 1..Len(fcst) :
        <<fcst[j].unique_id, fcst[j].ds>> \notin KeysOf(test_df)}

\* the number of coverage gaps the run has reported
GapsLogged == Len(SelectSeq(stdout, LAMBDA line : line = "coverage gap"))

\* C5: after a merge the forecast rows without a holdout row are left out
\* without an error and each is counted as a logged gap; a holdout row
\* without a forecast has no value for the model.
C5_CoverageGaps ==
    pc \in {"evaluate", "sf_evaluate"} =>
        LET fcst == IF pc = "evaluate" THEN fcst_df ELSE sf_preds
        IN  /\ error = "none"
            /\ \A i \in 1..Len(test_df) :
                  test_df[i].ds \in HoldoutWindow(test_df[i].unique_id)
            /\ \A i \in 1..Len(test_df) : \A c \in LastCols :
                  Matches(test_df[i], fcst) = {} => test_df[i][c] = NaN
            /\ GapsLogged >= Cardinality(Unmatched(fcst))

\* the positions of the rows of series s that have a value for model m
ValuedRows(s, m) ==
    {i \in 1..Len(test_df) :
        test_df[i].unique_id = s /\ test_df[i][m] # NaN}

\* the mean absolute error of model m on the valued rows of series s
SeriesError(s, m) ==
    Quot(SetSum([i \in ValuedRows(s, m) |-> Abs(test_df[i][m] - test_df[i].y)],
                ValuedRows(s, m)),
         Cardinality(ValuedRows(s, m)))

\* the series that have a value for model m
ValuedSeries(m) == {s \in IdsOf(test_df) : ValuedRows(s, m) # {}}

\* C6: the summary of a model is the arithmetic mean of the per-series mean
\* absolute errors over exactly the series that have a value for the model.
C6_MeanOverValued ==
    evaluation # <<>> =>
        \A m \in DOMAIN average_metrics :
            ValuedSeries(m) # {} =>
                average_metrics[m] =
                    Quot(SetSum([s \in ValuedSeries(m) |-> SeriesError(s, m)],
                                ValuedSeries(m)),
                         Cardinality(ValuedSeries(m)))

\* a series without a value for TimeGPT is left out of the mean of TimeGPT
\* and is in the mean of a model that has a value for it
C6_Witness ==
    /\ pc = "futr_exog"
    /\ ValuedSeries("TimeGPT") # {}
    /\ ValuedSeries("TSB") \ ValuedSeries("TimeGPT") # {}
    /\ \E s \in ValuedSeries("TimeGPT") : SeriesError(s, "TimeGPT") > 0
    /\ \E s \in ValuedSeries("TSB") \ ValuedSeries("TimeGPT") :
          SeriesError(s, "TSB") > 0
    /\ average_metrics["TimeGPT"] > 0
    /\ average_metrics["TimeGPT"] # average_metrics["TSB"]

\* the failures that are structural: a required column is missing
StructuralErrors == {"KeyError"}

\* C7: the run is stopped by nothing but a structural failure; a failure
\* of one provider leaves the run going.
C7_ProviderFailureIsolated ==
    pc = "aborted" => error \in StructuralErrors

\* the forecast table fcst holds the inverse-transformed answer
Inverted(fcst) ==
    \/ pc \in {"merge", "ex_assign"} /\ fcst = fcst_df
    \/ pc = "sf_merge" /\ fcst = sf_preds

\* C8: a value that a provider returns equal to the transformed target of a
\* record is reported, after the inverse transform, at the untransformed
\* target of that record, up to the tolerance Tol of the arithmetic.
C8_RoundTrip ==
    \A fcst \in {fcst_df, sf_preds} :
        Inverted(fcst) =>
            \A j \in 1..Len(fcst) : \A c \in DOMAIN fcst[j] \ KeyCols :
                \A i \in 1..Len(df) :
                    response[j][AnswerCol(c)] = df_transformed[i].y
                        => Abs(fcst[j][c] - df[i].y) <= Tol

\* a provider has returned the transformed value of a positive target and
\* it has been inverse-transformed
C8_Witness ==
    /\ pc = "merge"
    /\ \E j \in 1..Len(fcst_df) : \E i \in 1..Len(df) :
          /\ df[i].y = MaxY * Scale
          /\ response[j].TimeGPT = df_transformed[i].y
          /\ Abs(fcst_df[j].TimeGPT - df[i].y) <= Tol

\* C9: no inverse-transformed value of a forecast table is negative.
C9_NonNegative ==
    \A fcst \in {fcst_df, sf_preds} :
        Inverted(fcst) =>
            \A j \in 1..Len(fcst) : \A c \in DOMAIN fcst[j] \ KeyCols :
                fcst[j][c] >= 0

\* C10: the panel given to a provider is input_df and has no record of a
\* holdout window, and the future exogenous table given to it has neither
\* the target nor a prediction column.
C10_NoLeak ==
    request # <<>> =>
        /\ request.df = input_df
        /\ \A i \in 1..Len(request.df) :
              request.df[i].ds \notin HoldoutWindow(request.df[i].unique_id)
        /\ \A i \in 1..Len(request.X_df) :
              DOMAIN request.X_df[i] \cap ({"y"} \cup PredictionCols) = {}

\* the remote provider has been called with the future exogenous table
C10_Witness ==
    /\ pc = "ex_inverse"
    /\ Len(request.X_df) = NumSeries * H
    /\ Len(request.df) = NumSeries
    /\ \A i \in 1..Len(test_df) : test_df[i].TimeGPT # NaN

====
